---- MODULE Spec2Model ----
(***************************************************************************)
(* Model of the broom folder-quota actor (package broom).                  *)
(*                                                                         *)
(*   src/broom.go     Broom, NewBroom, Start, Stop, AddFolder,             *)
(*                    RecheckFolder, RemoveFolder, GetFolder               *)
(*   src/internal.go  BroomFolder (deInit, initialize, scan, check),       *)
(*                    Broom.handleQueue, Broom.handle, Broom.loop          *)
(*   src/fs.go        File, calculateFolderSize, the removing strategies,  *)
(*                    DeleteFiles, collectFiles, sortFilesByCreateTime     *)
(*                                                                         *)
(* BroomFolder.parent is read by scan and check but assigned by no         *)
(* statement of these files (AddFolder builds the folder without it); the  *)
(* model takes it to be the owning Broom, see parent below; the metadata   *)
(* reader fetchMetadata reads from it is no declared field of Broom and is *)
(* taken as one.  Startable (Start, Stop, IsStarted) is an imported        *)
(* package: Start runs loop in a goroutine, Stop cancels its context and   *)
(* waits for loop to return.                                               *)
(***************************************************************************)
EXTENDS Integers, Sequences, FiniteSets, TLC

\* ------------------------------------------------------------------ bounds
MaxOps == 3           \* public calls that pass the started check in one run
MaxTicks == 2         \* sweep-timer ticks counted between two operations

\* ------------------------------------------------------- program constants
QueueCap == 10        \* make(chan broomOperation, 10)

\* ------------------------------------------------------------ value spaces
Locations == {"a", "b"}
\* The quotas AddFolder is called with, per location.
MaxSizeChoices(l) == IF l = "a" THEN {0, 500000, 1000000} ELSE {5}
Callers == {1, 2}                     \* goroutines calling the public API
Ctl == Cardinality(Callers) + 1       \* the goroutine calling Start and Stop
Procs == Callers \cup {Ctl}
Lsn == Ctl + 1                        \* the goroutines started by BroomFolder.watch

OperationAdd == "OperationAdd"
OperationRemove == "OperationRemove"
OperationGet == "OperationGet"
OperationPing == "OperationPing"
OperationRecheck == "OperationRecheck"

ErrNil == "nil"
ErrFolderExist == "folder exists"
ErrFolderNotExist == "folder not exist"
ErrNotStarted == "not started"
ErrScan == "cannot read directory"
ErrNewWatcher == "failed to create watcher"
ErrWatch == "failed to watch folder"
ErrDelete == "failed to delete"

\* A File value: Name is the rank of the file name in string order.
MkFile(name, size, createAt) ==
    [Name |-> name, IsDir |-> FALSE, Size |-> size, CreateAt |-> createAt]
MkDir(name, size, createAt) ==
    [Name |-> name, IsDir |-> TRUE, Size |-> size, CreateAt |-> createAt]

\* Directory contents the run can start from (entries of one directory have
\* distinct names).  DirBig holds the files of the repository's test (600, 300
\* and 400 KBytes, written in that order), with names in the opposite order of
\* their creation, and a subdirectory.
DirBig ==
    { MkFile(3, 600000, 1), MkFile(2, 300000, 2), MkFile(1, 400000, 3),
      MkDir(4, 400000, 0) }
DirTies == { MkFile(1, 4, 1), MkFile(2, 4, 1), MkFile(3, 0, 1) }
InitialDisk == [ l \in Locations |-> IF l = "a" THEN DirBig ELSE DirTies ]

Strategies == { "DEFAULT_REMOVING_STRATEGY", "NAME_BASED_REMOVING_STRATEGY", "nil" }

\* ================================================================== fs.go

RECURSIVE SumSizes(_)
SumSizes(S) ==
    IF S = {} THEN 0
    ELSE LET x == CHOOSE y \in S : TRUE IN x.Size + SumSizes(S \ {x})

\* calculateFolderSize: the sizes of the non-directory entries, summed.
RECURSIVE calculateFolderSize(_)
calculateFolderSize(files) ==
    IF files = <<>> THEN 0
    ELSE (IF Head(files).IsDir THEN 0 ELSE Head(files).Size)
         + calculateFolderSize(Tail(files))

\* sort.Slice on up to 12 elements is an insertion sort: an element moves
\* left only past elements it is strictly less than.
\* The less functions handed to sort.Slice: by creation time, or by name.
Less(by, f, g) ==
    IF by = "CreateAt" THEN f.CreateAt < g.CreateAt ELSE f.Name < g.Name

RECURSIVE InsertSorted(_, _, _)
InsertSorted(s, x, by) ==
    IF s = <<>> THEN <<x>>
    ELSE LET n == Len(s) IN
         IF Less(by, x, s[n]) THEN Append(InsertSorted(SubSeq(s, 1, n - 1), x, by), s[n])
         ELSE Append(s, x)

RECURSIVE SortSlice(_, _)
SortSlice(s, by) ==
    IF s = <<>> THEN <<>>
    ELSE LET n == Len(s) IN InsertSorted(SortSlice(SubSeq(s, 1, n - 1), by), s[n], by)

\* Beyond 12 elements sort.Slice is a pattern-defeating quicksort and "is not
\* guaranteed to be stable: equal elements may be reversed from their original
\* order".  Its possible results are the arrangements of s in which no element
\* is less than one before it.
MaxInsertion == 12

Inserts(t, x, by) ==
    { SubSeq(t, 1, k) \o <<x>> \o SubSeq(t, k + 1, Len(t)) :
        k \in { j \in 0..Len(t) : /\ \A i \in 1..j : ~Less(by, x, t[i])
                                  /\ \A i \in (j + 1)..Len(t) : ~Less(by, t[i], x) } }

RECURSIVE Arrangements(_, _)
Arrangements(s, by) ==
    IF s = <<>> THEN { <<>> }
    ELSE LET n == Len(s)
         IN UNION { Inserts(t, s[n], by) : t \in Arrangements(SubSeq(s, 1, n - 1), by) }

\* What sort.Slice can leave in the slice.
SortSliceResults(s, by) ==
    IF Len(s) <= MaxInsertion THEN { SortSlice(s, by) } ELSE Arrangements(s, by)

\* os.ReadDir: the entries of the directory sorted by file name.
RECURSIVE ReadDir(_)
ReadDir(dir) ==
    IF dir = {} THEN <<>>
    ELSE LET last == CHOOSE f \in dir : \A g \in dir : g.Name <= f.Name
         IN Append(ReadDir(dir \ {last}), last)

\* hasAllowedExtension: no filter when extensions is nil.
hasAllowedExtension(f, extensions) == extensions = "nil"

\* collectFiles with recursive = false: subdirectories are skipped.
collectFiles(dir, extensions) ==
    SelectSeq(ReadDir(dir), LAMBDA f : ~f.IsDir /\ hasAllowedExtension(f, extensions))

sortFilesByCreateTime(files) == SortSlice(files, "CreateAt")

\* The loop shared by the two built-in strategies: take files in order until
\* totalFreed >= bytesToFree.
TakeUntilFreed_NoThreshold(filesSlice, totalFreed, bytesToFree) == filesSlice

RECURSIVE TakeUntilFreed_Strict(_, _, _)
TakeUntilFreed_Strict(filesSlice, totalFreed, bytesToFree) ==
    IF filesSlice = <<>> \/ totalFreed > bytesToFree THEN <<>>
    ELSE <<Head(filesSlice)>>
         \o TakeUntilFreed_Strict(Tail(filesSlice), totalFreed + Head(filesSlice).Size,
                                  bytesToFree)

RECURSIVE TakeUntilFreed_DropsLast(_, _, _)
TakeUntilFreed_DropsLast(filesSlice, totalFreed, bytesToFree) ==
    IF Len(filesSlice) <= 1 \/ totalFreed >= bytesToFree THEN <<>>
    ELSE <<Head(filesSlice)>>
         \o TakeUntilFreed_DropsLast(Tail(filesSlice), totalFreed + Head(filesSlice).Size,
                                     bytesToFree)

RECURSIVE TakeUntilFreed(_, _, _)
TakeUntilFreed(filesSlice, totalFreed, bytesToFree) ==
    IF filesSlice = <<>> \/ totalFreed >= bytesToFree THEN <<>>
    ELSE <<Head(filesSlice)>>
         \o TakeUntilFreed(Tail(filesSlice), totalFreed + Head(filesSlice).Size, bytesToFree)

DEFAULT_REMOVING_STRATEGY_ByName(allFiles, bytesToFree) ==
    TakeUntilFreed(SortSlice(SelectSeq(allFiles, LAMBDA f : ~f.IsDir), "Name"),
                   0, bytesToFree)

DEFAULT_REMOVING_STRATEGY_KeepsDirs(allFiles, bytesToFree) ==
    TakeUntilFreed(SortSlice(allFiles, "CreateAt"), 0, bytesToFree)

DEFAULT_REMOVING_STRATEGY(allFiles, bytesToFree) ==
    TakeUntilFreed(SortSlice(SelectSeq(allFiles, LAMBDA f : ~f.IsDir), "CreateAt"),
                   0, bytesToFree)

NAME_BASED_REMOVING_STRATEGY(allFiles, bytesToFree) ==
    TakeUntilFreed(SortSlice(SelectSeq(allFiles, LAMBDA f : ~f.IsDir), "Name"),
                   0, bytesToFree)

DeleteFiles_GoesOn(files, failAt) ==
    LET fails == failAt \in 1..Len(files) /\ ~files[failAt].IsDir
    IN [ removed |-> { files[i] : i \in { j \in 1..Len(files) :
                                            ~files[j].IsDir /\ ~(fails /\ j = failAt) } },
         err     |-> IF fails THEN ErrDelete ELSE ErrNil ]

\* DeleteFiles: os.Remove file by file; failAt is the index of the file whose
\* removal fails (0: none fails).  Directories are skipped.
DeleteFiles(files, failAt) ==
    LET fails == failAt \in 1..Len(files) /\ ~files[failAt].IsDir
        upto  == IF fails THEN failAt - 1 ELSE Len(files)
    IN [ removed |-> { files[i] : i \in { j \in 1..upto : ~files[j].IsDir } },
         err     |-> IF fails THEN ErrDelete ELSE ErrNil ]

\* ============================================================ internal.go

VARIABLES
    active,           \* the goroutines followed in this run
    listeners,        \* location -> the goroutines watch() started, by position
    access,           \* the folder field a watch() goroutine read since the
                      \* loop's latest step
    started,          \* Startable: IsStarted()
    loopPc,           \* the goroutine running Broom.loop
    ctxDone,          \* the context handed to loop has been cancelled
    operationQueue,   \* Broom.operationQueue (buffered channel)
    folders,          \* Broom.folders: location -> BroomFolder
    RemovingStrategy, \* Broom.RemovingStrategy
    disk,             \* the directory behind each location
    watchers,         \* open fsnotify watchers created for each location
    onRemoveCb,       \* Broom.onRemoveCb
    metaDataReader,   \* the MetadateReader fetchMetadata reads from its parent
    checked,          \* locations whose check() ran in the loop's latest step
    calls,            \* the calls the loop's latest step made, in order
    ticks,            \* sweep-timer ticks since the last operation was handled
    pc,               \* position of each goroutine using the Broom
    pending,          \* the broomOperation a goroutine has built
    sig,              \* the reply channel op.sig of a goroutine's call
    result,           \* what the goroutine's last call returned
    issued,           \* calls that passed the started check
    arrivals,         \* operations sent to operationQueue so far
    last              \* the operation handleQueue handled last, and its response

vars == << active, listeners, access, started, loopPc, ctxDone, operationQueue, folders, RemovingStrategy,
           onRemoveCb, metaDataReader, disk, watchers, checked, calls, ticks, pc,
           pending, sig, result, issued, arrivals, last >>

NoAccess == [ loc |-> "", field |-> "none" ]

NilList == <<>>                       \* bf.list == nil; a list l is <<l>>
exts == "nil"                         \* Broom.exts as NewBroom leaves it

\* bf.parent: the Broom owning the folder, as far as scan and check read it.
parent ==
    [ exts |-> exts, RemovingStrategy |-> RemovingStrategy,
      onRemoveCb |-> onRemoveCb, metaDataReader |-> metaDataReader ]

\* BroomFolder{Location: location, MaxSize: maxSize}
NewFolder(location, maxSize) ==
    [ Location |-> location, MaxSize |-> maxSize, CurrentSize |-> 0,
      list |-> NilList, watcher |-> "nil" ]


\* The copy of a folder that travels in a response (Location, MaxSize,
\* CurrentSize are its exported fields).
Snapshot(bf) ==
    [ Location |-> bf.Location, MaxSize |-> bf.MaxSize, CurrentSize |-> bf.CurrentSize ]

ZeroFolder == Snapshot(NewFolder("", 0))

isInitialized(bf) == bf.list # NilList

\* The methods below act on a folder together with what it touches:
\*   w.bf the folder, w.dir its directory, w.open its open watchers,
\*   w.checks the calls of check made on it, w.calls the calls it made of
\*   the removing strategy, DeleteFiles, the on-remove callback and the
\*   metadata reader.
\*   w.lsn the goroutines watch() started on the folders of its location:
\*     top    about to evaluate bf.watcher.Events and bf.watcher.Errors,
\*     open   blocked in the select on the channels of an open watcher,
\*     closed blocked on, or woken by, the channels of a closed watcher,
\*     orphan as top, the folder no longer in the registry.
NoListeners == [ top |-> 0, open |-> 0, closed |-> 0, orphan |-> 0 ]

World(bf) ==
    [ bf |-> bf, dir |-> disk[bf.Location], open |-> watchers[bf.Location],
      checks |-> 0, calls |-> <<>>, lsn |-> listeners[bf.Location] ]

\* One call: the function, the files and the size handed to it, the files
\* and the error it returned.
Call(fn, in, size, out, err) ==
    [ fn |-> fn, in |-> in, size |-> size, out |-> out, err |-> err ]

CloseWatcher(w) ==
    IF w.bf.watcher = "open"
    THEN [w EXCEPT !.bf.watcher = "closed", !.open = @ - 1,
                   !.lsn = [@ EXCEPT !.open = 0, !.closed = @ + w.lsn.open]]
    ELSE w

deInit(w) ==
    IF ~isInitialized(w.bf) THEN w
    ELSE LET c == IF w.bf.watcher # "nil" THEN CloseWatcher(w) ELSE w
         IN [c EXCEPT !.bf.list = NilList]

scan(w, fault) ==
    IF fault.kind = "scan" THEN [w |-> w, err |-> ErrScan]
    ELSE LET files == collectFiles(w.dir, parent.exts)
         IN [ w |-> [w EXCEPT !.bf.CurrentSize = calculateFolderSize(files),
                              !.bf.list = <<sortFilesByCreateTime(files)>>],
              err |-> ErrNil ]

Strategy(allFiles, bytesToFree) ==
    IF parent.RemovingStrategy = "DEFAULT_REMOVING_STRATEGY"
    THEN DEFAULT_REMOVING_STRATEGY(allFiles, bytesToFree)
    ELSE NAME_BASED_REMOVING_STRATEGY(allFiles, bytesToFree)

\* bf.MaxSize != 0 && bf.MaxSize < bf.CurrentSize
overQuota_ZeroIsALimit(bf) == bf.MaxSize < bf.CurrentSize

overQuota(bf) == bf.MaxSize # 0 /\ bf.MaxSize < bf.CurrentSize

check(w0, fault) ==
    LET w == [w0 EXCEPT !.checks = @ + 1] IN
    IF ~isInitialized(w.bf) THEN [w |-> w, err |-> ErrNil]
    ELSE IF overQuota(w.bf) /\ parent.RemovingStrategy # "nil"
    THEN LET bytesToFree == w.bf.CurrentSize - w.bf.MaxSize
             rms == Strategy(w.bf.list[1], bytesToFree)
             del == DeleteFiles(rms, IF fault.kind = "delete" THEN fault.at ELSE 0)
             cb  == IF parent.onRemoveCb # "nil"
                    THEN << Call("onRemoveCb", rms, w.bf.CurrentSize, <<>>, ErrNil) >>
                    ELSE << >>
             after == [w EXCEPT
                         !.dir = @ \ del.removed,
                         !.calls = @ \o << Call("RemovingStrategy", w.bf.list[1],
                                                bytesToFree, rms, ErrNil),
                                           Call("DeleteFiles", rms, 0,
                                                SelectSeq(rms, LAMBDA f : f \in del.removed),
                                                del.err) >>
                                     \o cb]
         IN IF del.err = ErrNil
            THEN [ w |-> [after EXCEPT !.bf.CurrentSize = @ - calculateFolderSize(rms)],
                   err |-> ErrNil ]
            ELSE [ w |-> after, err |-> del.err ]
    ELSE [w |-> w, err |-> ErrNil]

\* fetchMetadata: returns at once on an initialized folder and without a
\* reader; otherwise it walks bf.list, which is nil on a folder that is not
\* initialized.
fetchMetadata(w) ==
    IF isInitialized(w.bf) THEN w
    ELSE IF parent.metaDataReader = "nil" THEN w
    ELSE [w EXCEPT !.calls = Append(@, Call("nil dereference", <<>>, 0, <<>>, ErrNil))]

initialize(w, fault) ==
    IF isInitialized(w.bf) THEN [w |-> w, err |-> ErrNil]
    ELSE LET s == scan(w, fault) IN
         IF s.err # ErrNil THEN s
         ELSE IF fault.kind = "newWatcher" THEN [w |-> s.w, err |-> ErrNewWatcher]
         ELSE LET watched == [s.w EXCEPT !.bf.watcher = "open", !.open = @ + 1,
                                        !.lsn.top = @ + 1] IN
              IF fault.kind = "watchAdd"
              THEN [w |-> CloseWatcher(watched), err |-> ErrWatch]
              ELSE LET c == check(fetchMetadata(watched), fault) IN
                   IF c.err # ErrNil THEN [w |-> deInit(c.w), err |-> c.err]
                   ELSE c

\* What the I/O under one handleQueue call can do: nothing goes wrong, or
\* ReadDir, NewWatcher, watcher.Add or the at-th os.Remove fails.
MaxBatch == 3
Faults ==
    { [kind |-> k, at |-> 0] : k \in {"none", "scan", "newWatcher", "watchAdd"} }
    \cup { [kind |-> "delete", at |-> i] : i \in 1..MaxBatch }

Response(err, data) == [err |-> err, data |-> data]

NoMsg == Response("none", ZeroFolder)

\* make(chan broomOperationResponse)
NewSig == [sent |-> 0, closed |-> FALSE, msg |-> NoMsg]

\* The effect of a folder method on the Broom: the registry, the directory,
\* the open watchers of the folder's location and the checks run.
Effect(fs, w, ret) ==
    [ folders    |-> fs,
      disk       |-> [disk EXCEPT ![w.bf.Location] = w.dir],
      watchers   |-> [watchers EXCEPT ![w.bf.Location] = w.open],
      checked    |-> IF w.checks > 0 THEN {w.bf.Location} ELSE {},
      calls      |-> w.calls,
      listeners  |-> [listeners EXCEPT ![w.bf.Location] = w.lsn],
      ret        |-> ret ]

NoEffect(ret) ==
    [ folders |-> folders, disk |-> disk, watchers |-> watchers,
      checked |-> {}, calls |-> <<>>, listeners |-> listeners, ret |-> ret ]

Put(fs, location, bf) ==
    [ l \in DOMAIN fs \cup {location} |-> IF l = location THEN bf ELSE fs[l] ]

Delete(fs, location) == [ l \in DOMAIN fs \ {location} |-> fs[l] ]

handleAdd_Overwrite(op) ==
    [ NoEffect(Response(IF op.folder.Location \in DOMAIN folders
                        THEN ErrFolderExist ELSE ErrNil, ZeroFolder))
      EXCEPT !.folders = Put(folders, op.folder.Location, op.folder) ]

handleAdd(op) ==
    IF op.folder.Location \in DOMAIN folders
    THEN NoEffect(Response(ErrFolderExist, ZeroFolder))
    ELSE [ NoEffect(Response(ErrNil, ZeroFolder))
           EXCEPT !.folders = Put(folders, op.folder.Location, op.folder) ]

handleGet_Rechecks(op, fault) ==
    IF op.folder.Location \notin DOMAIN folders
    THEN NoEffect(Response(ErrFolderNotExist, ZeroFolder))
    ELSE LET r == initialize(deInit(World(folders[op.folder.Location])), fault)
         IN Effect(Put(folders, r.w.bf.Location, r.w.bf), r.w,
                   Response(r.err, Snapshot(r.w.bf)))

handleGet(op, fault) ==
    IF op.folder.Location \notin DOMAIN folders
    THEN NoEffect(Response(ErrFolderNotExist, ZeroFolder))
    ELSE LET got == folders[op.folder.Location]
             r == IF ~isInitialized(got) THEN initialize(World(got), fault)
                  ELSE [w |-> World(got), err |-> ErrNil]
         IN Effect(Put(folders, got.Location, r.w.bf), r.w, Response(r.err, Snapshot(r.w.bf)))

\* delete(br.folders, location): the goroutines watch() started keep their
\* pointer to the folder.
Orphaned(w) == [w EXCEPT !.lsn = [@ EXCEPT !.top = 0, !.orphan = @ + w.lsn.top]]

handleRemove_NoDeInit(op) ==
    IF op.folder.Location \notin DOMAIN folders
    THEN NoEffect(Response(ErrFolderNotExist, ZeroFolder))
    ELSE Effect(Delete(folders, op.folder.Location),
                World(folders[op.folder.Location]), Response(ErrNil, ZeroFolder))

handleRemove(op) ==
    IF op.folder.Location \notin DOMAIN folders
    THEN NoEffect(Response(ErrFolderNotExist, ZeroFolder))
    ELSE LET w == deInit(World(folders[op.folder.Location]))
         IN Effect(Delete(folders, op.folder.Location), Orphaned(w),
                   Response(ErrNil, ZeroFolder))

handleRecheck_NoDeInit(op, fault) ==
    IF op.folder.Location \notin DOMAIN folders
    THEN NoEffect(Response(ErrFolderNotExist, ZeroFolder))
    ELSE LET r == initialize(World(folders[op.folder.Location]), fault)
         IN Effect(Put(folders, r.w.bf.Location, r.w.bf), r.w, Response(r.err, ZeroFolder))

handleRecheck_Register(op, fault) ==
    LET bf == IF op.folder.Location \in DOMAIN folders
              THEN folders[op.folder.Location] ELSE op.folder
        r == initialize(deInit(World(bf)), fault)
    IN Effect(Put(folders, r.w.bf.Location, r.w.bf), r.w,
              Response(IF op.folder.Location \in DOMAIN folders THEN r.err
                       ELSE ErrFolderNotExist, ZeroFolder))

handleRecheck(op, fault) ==
    IF op.folder.Location \notin DOMAIN folders
    THEN NoEffect(Response(ErrFolderNotExist, ZeroFolder))
    ELSE LET r == initialize(deInit(World(folders[op.folder.Location])), fault)
         IN Effect(Put(folders, r.w.bf.Location, r.w.bf), r.w, Response(r.err, ZeroFolder))

handleQueue(op, fault) ==
    CASE op.op = OperationAdd     -> handleAdd(op)
      [] op.op = OperationGet     -> handleGet(op, fault)
      [] op.op = OperationPing    -> NoEffect(Response(ErrNil, ZeroFolder))
      [] op.op = OperationRemove  -> handleRemove(op)
      [] op.op = OperationRecheck -> handleRecheck(op, fault)

Receive_Newest(queue) == queue[Len(queue)]

\* The operation the select in handle receives from operationQueue.
Receive(queue) == Head(queue)

\* op.sig <- *ret: the channel is unbuffered, the sender offers the response
\* and blocks until the caller receives it.
Send(ch, ret) == [ch EXCEPT !.sent = @ + 1, !.msg = ret]

\* The receive takes the response; handleQueue then runs close(op.sig).
ReceiveAndClose(ch) == [ch EXCEPT !.closed = ch.sent > 0, !.msg = NoMsg]


\* handle, case op := <-br.operationQueue: handleQueue(op), up to its send on
\* op.sig.
HandleOperation ==
    /\ loopPc = "running"
    /\ operationQueue # <<>>
    /\ \E fault \in Faults :
         LET op == Receive(operationQueue)
             r  == handleQueue(op, fault)
         IN /\ operationQueue' = SelectSeq(operationQueue, LAMBDA o : o # op)
            /\ folders' = r.folders
            /\ disk' = r.disk
            /\ watchers' = r.watchers
            /\ checked' = r.checked
            /\ calls' = r.calls
            /\ listeners' = IF Lsn \in active THEN r.listeners ELSE listeners
            /\ sig' = [sig EXCEPT ![op.caller] = Send(@, r.ret)]
            /\ last' = [ seq |-> op.seq, caller |-> op.caller, op |-> op.op,
                         folder |-> op.folder, ret |-> r.ret ]
    /\ loopPc' = "sending"
    /\ ticks' = 0
    /\ access' = NoAccess
    /\ UNCHANGED << active, started, ctxDone, RemovingStrategy, onRemoveCb, metaDataReader, pc, pending,
                    result, issued, arrivals >>

\* handle, case <-sig: return false; loop then calls handle again.
SweepTick ==
    /\ loopPc = "running"
    /\ ticks < MaxTicks
    /\ ticks' = ticks + 1
    /\ checked' = {}
    /\ calls' = <<>>
    /\ UNCHANGED << listeners, access, active, started, loopPc, ctxDone, operationQueue, folders,
                    RemovingStrategy, onRemoveCb, metaDataReader, disk, watchers, pc, pending, sig, result,
                    issued, arrivals, last >>

\* handle, case <-ctx.Done(): return true; loop goes to exit and returns.
LoopExit ==
    /\ loopPc = "running"
    /\ ctxDone
    /\ loopPc' = "exited"
    /\ UNCHANGED << listeners, access, active, started, ctxDone, operationQueue, folders, RemovingStrategy, onRemoveCb, metaDataReader,
                    disk, watchers, checked, calls, ticks, pc, pending, sig, result,
                    issued, arrivals, last >>

\* ================================================================ broom.go

MkOperation(kind, location, maxSize) ==
    [ op |-> kind, folder |-> [Location |-> location, MaxSize |-> maxSize] ]

\* The operations the four public calls build.
PublicOperations ==
    UNION { { MkOperation(OperationAdd, l, m) : m \in MaxSizeChoices(l) } : l \in Locations }
    \cup { MkOperation(k, l, 0) :
             k \in {OperationRemove, OperationGet, OperationRecheck}, l \in Locations }

\* The operations drawn when several goroutines call concurrently.
SharedOperations ==
    { MkOperation(OperationAdd, "a", 500000), MkOperation(OperationGet, "a", 0),
      MkOperation(OperationRemove, "a", 0), MkOperation(OperationRecheck, "a", 0) }

Alphabet == IF active = {1} THEN PublicOperations ELSE SharedOperations

NoOperation == MkOperation("none", "", 0)

\* The folder an operation carries into the registry.
FolderOf(o) == NewFolder(o.folder.Location, o.folder.MaxSize)

\* Start: Startable.Start runs loop in a new goroutine; Start then builds the
\* ping operation.
Start ==
    /\ pc[Ctl] = "new"
    /\ ~started
    /\ started' = TRUE
    /\ loopPc' = "running"
    /\ pending' = [pending EXCEPT ![Ctl] = MkOperation(OperationPing, "", 0)]
    /\ sig' = [sig EXCEPT ![Ctl] = NewSig]
    /\ pc' = [pc EXCEPT ![Ctl] = "built"]
    /\ UNCHANGED << listeners, access, active, ctxDone, operationQueue, folders, RemovingStrategy, onRemoveCb, metaDataReader, disk,
                    watchers, checked, calls, ticks, result, issued, arrivals, last >>

CallNotStarted_Enqueues(p) ==
    /\ p \in active
    /\ pc[p] = "idle"
    /\ ~started
    /\ Len(operationQueue) < QueueCap
    /\ result' = [result EXCEPT ![p] = Response(ErrNotStarted, ZeroFolder)]
    /\ operationQueue' = Append(operationQueue,
         [ op |-> OperationGet, folder |-> FolderOf(MkOperation(OperationGet, "a", 0)),
           caller |-> p, seq |-> arrivals + 1 ])
    /\ arrivals' = arrivals + 1
    /\ UNCHANGED << listeners, access, active, started, loopPc, ctxDone, folders, RemovingStrategy,
                    onRemoveCb, metaDataReader, disk, watchers, checked, calls,
                    ticks, pc, pending, sig, issued, last >>

\* AddFolder, RecheckFolder, RemoveFolder, GetFolder: if !br.IsStarted()
CallNotStarted(p) ==
    /\ p \in active
    /\ pc[p] = "idle"
    /\ ~started
    /\ result' = [result EXCEPT ![p] = Response(ErrNotStarted, ZeroFolder)]
    /\ UNCHANGED << listeners, access, active, started, loopPc, ctxDone, operationQueue, folders,
                    RemovingStrategy, onRemoveCb, metaDataReader, disk, watchers, checked, calls, ticks, pc,
                    pending, sig, issued, arrivals, last >>

\* ... otherwise the call builds its operation and its reply channel.
CallBegin(p, o) ==
    /\ p \in active
    /\ o \in Alphabet
    /\ pc[p] = "idle"
    /\ started
    /\ issued < MaxOps
    /\ issued' = issued + 1
    /\ pending' = [pending EXCEPT ![p] = o]
    /\ sig' = [sig EXCEPT ![p] = NewSig]
    /\ pc' = [pc EXCEPT ![p] = "built"]
    /\ UNCHANGED << listeners, access, active, started, loopPc, ctxDone, operationQueue, folders,
                    RemovingStrategy, onRemoveCb, metaDataReader, disk, watchers, checked, calls, ticks, result,
                    arrivals, last >>

\* br.operationQueue <- op
Enqueue(p) ==
    /\ pc[p] = "built"
    /\ Len(operationQueue) < QueueCap
    /\ operationQueue' = Append(operationQueue,
         [ op |-> pending[p].op,
           folder |-> IF pending[p].op = OperationAdd THEN FolderOf(pending[p])
                      ELSE FolderOf(MkOperation(pending[p].op, pending[p].folder.Location, 0)),
           caller |-> p, seq |-> arrivals + 1 ])
    /\ arrivals' = arrivals + 1
    /\ pending' = [pending EXCEPT ![p] = NoOperation]
    /\ pc' = [pc EXCEPT ![p] = "waiting"]
    /\ UNCHANGED << listeners, access, active, started, loopPc, ctxDone, folders, RemovingStrategy, onRemoveCb, metaDataReader, disk,
                    watchers, checked, calls, ticks, sig, result, issued, last >>

CanReturn_NoWait(p) == TRUE

\* The call may leave its receive x := <-op.sig once a response was sent.
CanReturn(p) == sig[p].sent > 0

\* x := <-op.sig; return x.data, x.err.  The receive releases handleQueue
\* from its send; handleQueue closes the channel and handle selects again.
Return(p) ==
    /\ pc[p] = "waiting"
    /\ CanReturn(p)
    /\ result' = [result EXCEPT ![p] = sig[p].msg]
    /\ sig' = [sig EXCEPT ![p] = ReceiveAndClose(@)]
    /\ loopPc' = IF sig[p].sent > 0 THEN "running" ELSE loopPc
    /\ pc' = [pc EXCEPT ![p] = "idle"]
    /\ UNCHANGED << listeners, access, active, started, ctxDone, operationQueue, folders,
                    RemovingStrategy, onRemoveCb, metaDataReader, disk, watchers, checked, calls, ticks, pending,
                    issued, arrivals, last >>

\* Stop: Startable.Stop cancels the context ...
Stop ==
    /\ pc[Ctl] = "idle"
    /\ started
    /\ ctxDone' = TRUE
    /\ pc' = [pc EXCEPT ![Ctl] = "stopping"]
    /\ UNCHANGED << listeners, access, active, started, loopPc, operationQueue, folders, RemovingStrategy, onRemoveCb, metaDataReader,
                    disk, watchers, checked, calls, ticks, pending, sig, result,
                    issued, arrivals, last >>

\* ... and returns once the start function (loop) has returned.
StopReturn ==
    /\ pc[Ctl] = "stopping"
    /\ loopPc = "exited"
    /\ started' = FALSE
    /\ pc' = [pc EXCEPT ![Ctl] = "stopped"]
    /\ UNCHANGED << listeners, access, active, loopPc, ctxDone, operationQueue, folders, RemovingStrategy, onRemoveCb, metaDataReader,
                    disk, watchers, checked, calls, ticks, pending, sig, result,
                    issued, arrivals, last >>

\* NewBroom: empty registry and queue, the loop not yet running.
InitBroom ==
    /\ started = FALSE
    /\ loopPc = "notstarted"
    /\ ctxDone = FALSE
    /\ operationQueue = <<>>
    /\ folders = [l \in {} |-> NewFolder(l, 0)]
    /\ RemovingStrategy \in Strategies
    /\ disk = InitialDisk
    /\ watchers = [l \in Locations |-> 0]
    /\ listeners = [l \in Locations |-> NoListeners]
    /\ access = NoAccess
    /\ checked = {}
    /\ ticks = 0
    /\ pc = [p \in Procs |-> IF p = Ctl THEN "new" ELSE "idle"]
    /\ pending = [p \in Procs |-> NoOperation]
    /\ sig = [p \in Procs |-> NewSig]
    /\ result = [p \in Procs |-> NoMsg]
    /\ issued = 0
    /\ arrivals = 0
    /\ last = [ seq |-> 0, caller |-> Ctl, op |-> "none",
                folder |-> NewFolder("", 0), ret |-> NoMsg ]

\* One goroutine uses the Broom, with every public operation; no callback and
\* no metadata reader is configured.
Init ==
    /\ InitBroom
    /\ active = {1}
    /\ onRemoveCb = "nil"
    /\ metaDataReader = "nil"
    /\ calls = <<>>

\* The same with an on-remove callback and a metadata reader configured.
InitConfigured ==
    /\ InitBroom
    /\ active = {1}
    /\ RemovingStrategy # "nil"
    /\ onRemoveCb = "set"
    /\ metaDataReader = "set"
    /\ calls = <<>>

\* All caller goroutines use the Broom concurrently, with the strategy NewBroom
\* sets.
InitConcurrent ==
    /\ InitBroom
    /\ active = Callers
    /\ RemovingStrategy = "DEFAULT_REMOVING_STRATEGY"
    /\ onRemoveCb = "nil"
    /\ metaDataReader = "nil"
    /\ calls = <<>>

Next ==
    \/ Start
    \/ \E p \in Callers : CallNotStarted(p)
    \/ \E p \in Callers : \E o \in PublicOperations : CallBegin(p, o)
    \/ \E p \in Procs : Enqueue(p)
    \/ \E p \in Procs : Return(p)
    \/ HandleOperation
    \/ SweepTick
    \/ LoopExit
    \/ Stop
    \/ StopReturn

Spec == Init /\ [][Next]_vars

SpecConcurrent == InitConcurrent /\ [][Next]_vars

SpecConfigured == InitConfigured /\ [][Next]_vars

\* --------------------------------------------- the goroutines of watch()

\* The goroutine evaluates bf.watcher.Events and bf.watcher.Errors at the top
\* of its loop and blocks in the select on the channels of the watcher it
\* found.
ListenerSelect(l) ==
    /\ \/ /\ listeners[l].top > 0
          /\ l \in DOMAIN folders
          /\ listeners' = [listeners EXCEPT ![l] =
                IF folders[l].watcher = "open"
                THEN [@ EXCEPT !.top = @ - 1, !.open = @ + 1]
                ELSE [@ EXCEPT !.top = @ - 1, !.closed = @ + 1]]
       \/ /\ listeners[l].orphan > 0
          /\ listeners' = [listeners EXCEPT ![l] =
                [@ EXCEPT !.orphan = @ - 1, !.closed = @ + 1]]
    /\ access' = [ loc |-> l, field |-> "watcher" ]
    /\ UNCHANGED << active, started, loopPc, ctxDone, operationQueue, folders,
                    RemovingStrategy, onRemoveCb, metaDataReader, disk, watchers,
                    checked, calls, ticks, pc, pending, sig, result, issued,
                    arrivals, last >>

\* case event, ok := <-bf.watcher.Events with ok, or an error from Errors:
\* onFolderEvent logs the event and the goroutine loops.
ListenerEvent(l) ==
    /\ listeners[l].open > 0
    /\ listeners' = [listeners EXCEPT ![l] =
          [@ EXCEPT !.open = @ - 1,
                    !.top = @ + (IF l \in DOMAIN folders THEN 1 ELSE 0),
                    !.orphan = @ + (IF l \in DOMAIN folders THEN 0 ELSE 1)]]
    /\ UNCHANGED << access, active, started, loopPc, ctxDone, operationQueue,
                    folders, RemovingStrategy, onRemoveCb, metaDataReader, disk,
                    watchers, checked, calls, ticks, pc, pending, sig, result,
                    issued, arrivals, last >>

\* The channels of a closed watcher are closed: !ok, the goroutine returns.
ListenerReturn(l) ==
    /\ listeners[l].closed > 0
    /\ listeners' = [listeners EXCEPT ![l] = [@ EXCEPT !.closed = @ - 1]]
    /\ UNCHANGED << access, active, started, loopPc, ctxDone, operationQueue,
                    folders, RemovingStrategy, onRemoveCb, metaDataReader, disk,
                    watchers, checked, calls, ticks, pc, pending, sig, result,
                    issued, arrivals, last >>

\* One goroutine uses the Broom and the goroutines of watch() are followed.
InitListener ==
    /\ InitBroom
    /\ active = {1, Lsn}
    /\ RemovingStrategy = "DEFAULT_REMOVING_STRATEGY"
    /\ onRemoveCb = "nil"
    /\ metaDataReader = "nil"
    /\ calls = <<>>

NextListener ==
    \/ Next
    \/ \E l \in Locations : ListenerSelect(l)
    \/ \E l \in Locations : ListenerEvent(l)
    \/ \E l \in Locations : ListenerReturn(l)

SpecListener == InitListener /\ [][NextListener]_vars

\* ------------------------------------------- the strategies called directly

\* The built-in strategies and DeleteFiles are exported functions; here each
\* is called once on a list of files drawn at the start.
MaxFiles == 3         \* files in a list handed to a strategy or to DeleteFiles

FileChoices ==
    { MkFile(n[1], s, n[2]) : n \in { <<1, 1>>, <<1, 2>>, <<2, 1>> }, s \in 0..2 }
    \cup { MkDir(2, 2, 1) }

FileLists == UNION { [1..n -> FileChoices] : n \in 0..MaxFiles }

\* A list longer than sort.Slice sorts by insertion: names and creation times
\* descend along the list, and its last two files share the lowest of both.
LongList ==
    [ i \in 1..(MaxInsertion + 1) |->
        LET k == IF i = MaxInsertion + 1 THEN 2 ELSE MaxInsertion + 2 - i
        IN MkFile(k, i, k) ]

BytesChoices == 1..7

Calling == "calling"                  \* a call that has not returned

\* What the configured built-in strategy can return: up to MaxInsertion
\* candidates its result is determined, beyond that it follows sort.Slice.
StrategyResults(allFiles, bytesToFree) ==
    LET filesSlice == SelectSeq(allFiles, LAMBDA f : ~f.IsDir)
        by == IF RemovingStrategy = "DEFAULT_REMOVING_STRATEGY" THEN "CreateAt" ELSE "Name"
    IN IF Len(filesSlice) <= MaxInsertion
       THEN { Strategy(allFiles, bytesToFree) }
       ELSE { TakeUntilFreed(t, 0, bytesToFree) : t \in SortSliceResults(filesSlice, by) }

InitStrategy ==
    /\ InitBroom
    /\ active = {}
    /\ RemovingStrategy # "nil"
    /\ onRemoveCb = "nil"
    /\ metaDataReader = "nil"
    /\ calls \in { << Call("RemovingStrategy", l, b, <<>>, Calling) >> :
                      l \in FileLists \cup {LongList}, b \in BytesChoices }
               \cup { << Call("DeleteFiles", l, 0, <<>>, Calling) >> : l \in FileLists }

\* br.RemovingStrategy(bf, allFiles, bytesToFree) returns.
ApplyStrategy ==
    /\ calls[1].fn = "RemovingStrategy"
    /\ calls[1].err = Calling
    /\ \E filesToRemove \in StrategyResults(calls[1].in, calls[1].size) :
         calls' = << [calls[1] EXCEPT !.out = filesToRemove, !.err = ErrNil] >>
    /\ UNCHANGED << listeners, access, active, started, loopPc, ctxDone, operationQueue, folders,
                    RemovingStrategy, onRemoveCb, metaDataReader, disk, watchers,
                    checked, ticks, pc, pending, sig, result, issued, arrivals, last >>

\* DeleteFiles(files) returns, every os.Remove succeeding or one failing.
ApplyDeleteFiles ==
    /\ calls[1].fn = "DeleteFiles"
    /\ calls[1].err = Calling
    /\ \E failAt \in 0..Len(calls[1].in) :
         LET del == DeleteFiles(calls[1].in, failAt)
         IN calls' = << [calls[1] EXCEPT
                          !.out = SelectSeq(calls[1].in, LAMBDA f : f \in del.removed),
                          !.err = del.err] >>
    /\ UNCHANGED << listeners, access, active, started, loopPc, ctxDone, operationQueue, folders,
                    RemovingStrategy, onRemoveCb, metaDataReader, disk, watchers,
                    checked, ticks, pc, pending, sig, result, issued, arrivals, last >>

NextStrategy == ApplyStrategy \/ ApplyDeleteFiles

SpecStrategy == InitStrategy /\ [][NextStrategy]_vars

\* ================================================================ properties

\* The step is one call of handleQueue; last' then holds the operation handled
\* and the response sent.
HandleStep == last'.seq # last.seq

\* The location the operation handled last names.
LastLoc == last.folder.Location

\* Total size of the non-directory files present in a directory.
DirSize(dir) == SumSizes({ f \in dir : ~f.IsDir })

\* C1: AddFolder on a registered location answers 'folder exists' and changes
\* nothing: the registry (MaxSize, CurrentSize, file set and watcher of every
\* folder), the directories and the open watchers stay as they are.  The
\* MaxSize of a folder is the one of the AddFolder that registered it, stays so
\* while the folder is registered, and is what GetFolder reports.
C1_Step ==
    /\ (HandleStep /\ last'.op = OperationAdd /\ last'.folder.Location \in DOMAIN folders)
         => /\ last'.ret.err = ErrFolderExist
            /\ folders' = folders
            /\ disk' = disk
            /\ watchers' = watchers
    /\ (HandleStep /\ last'.op = OperationAdd /\ last'.folder.Location \notin DOMAIN folders)
         => /\ last'.ret.err = ErrNil
            /\ folders'[last'.folder.Location].MaxSize = last'.folder.MaxSize
    /\ \A l \in DOMAIN folders \cap DOMAIN folders' :
         folders'[l].MaxSize = folders[l].MaxSize
    /\ (HandleStep /\ last'.op = OperationGet /\ last'.folder.Location \in DOMAIN folders)
         => last'.ret.data.MaxSize = folders[last'.folder.Location].MaxSize

C1_DuplicateAddLeavesRegistry == [][C1_Step]_vars

\* An AddFolder with another MaxSize was rejected on an initialized folder.
C1_Witness ==
    /\ last.op = OperationAdd
    /\ last.ret.err = ErrFolderExist
    /\ LastLoc \in DOMAIN folders
    /\ folders[LastLoc].MaxSize # last.folder.MaxSize
    /\ isInitialized(folders[LastLoc])

\* C2: after a successful AddFolder with maxSize > 0, once two sweep ticks
\* have passed with no operation handled in between, the files present in the
\* directory total at most maxSize.
C2_SweepAloneEvicts ==
    ( /\ loopPc = "running"
      /\ last.op = OperationAdd
      /\ last.ret.err = ErrNil
      /\ last.folder.MaxSize > 0
      /\ RemovingStrategy = "DEFAULT_REMOVING_STRATEGY"
      /\ ticks >= 2 )
    => DirSize(disk[LastLoc]) <= last.folder.MaxSize

\* C3: on every sweep-timer tick check() runs on every registered folder.
C3_TickChecksEveryFolder ==
    [][ ticks' = ticks + 1 => checked' = DOMAIN folders ]_vars

\* C4: the CurrentSize a successful GetFolder returns is the total size of the
\* files present in the directory after the call, and also the total measured
\* just before the call.
C4_CurrentSizeIsDirSize ==
    [][ (HandleStep /\ last'.op = OperationGet /\ last'.ret.err = ErrNil)
          => /\ last'.ret.data.CurrentSize = DirSize(disk'[last'.folder.Location])
             /\ last'.ret.data.CurrentSize = DirSize(disk[last'.folder.Location]) ]_vars

\* The files a step deleted from the directory of location l.
Deleted(l) == disk[l] \ disk'[l]

\* check() ran in this step and returned no error.
CheckSucceeded == HandleStep /\ checked' # {} /\ last'.ret.err = ErrNil

\* After a successful check() of a folder with MaxSize > 0 the folder is within
\* quota or no deletable file is left; the deleted files come first in the
\* strategy's order and without the last of them less than
\* currentSize - maxSize would have been freed.
QuotaEnforced(l) ==
    LET by   == IF RemovingStrategy = "NAME_BASED_REMOVING_STRATEGY" THEN "Name" ELSE "CreateAt"
        need == DirSize(disk[l]) - folders'[l].MaxSize
        D    == Deleted(l)
    IN folders'[l].MaxSize > 0 =>
         /\ \/ folders'[l].CurrentSize <= folders'[l].MaxSize
            \/ { f \in disk'[l] : ~f.IsDir } = {}
         /\ \A d \in D : ~d.IsDir
         /\ \A d \in D : \A r \in disk'[l] : ~r.IsDir => ~Less(by, r, d)
         /\ D # {} => \E d \in D : /\ \A e \in D : ~Less(by, d, e)
                                   /\ SumSizes(D \ {d}) < need

\* C5 (as claimed): for every folder with maxSize > 0, whatever the strategy.
C5_QuotaAfterCheck ==
    [][ CheckSucceeded => \A l \in checked' : QuotaEnforced(l) ]_vars

\* C5 (amended): the same when one of the built-in strategies is configured.
C5_QuotaAfterCheckWithStrategy ==
    [][ (CheckSucceeded /\ RemovingStrategy # "nil")
          => \A l \in checked' : QuotaEnforced(l) ]_vars

\* A check evicted two files and brought an over-quota folder within quota.
C5_Witness ==
    /\ RemovingStrategy # "nil"
    /\ checked # {}
    /\ last.ret.err = ErrNil
    /\ LastLoc \in DOMAIN folders
    /\ folders[LastLoc].MaxSize > 0
    /\ Cardinality(InitialDisk[LastLoc] \ disk[LastLoc]) = 2
    /\ folders[LastLoc].CurrentSize <= folders[LastLoc].MaxSize

\* C6: a call's reply channel carries at most one response and is closed only
\* after it; a response not yet received belongs to the call handled last,
\* whose caller is waiting for it; handleQueue sends on the channel of the call
\* it handled and on no other; and a call returns only after its response was
\* sent, with that response, the channel being closed then.
C6_Channels ==
    \A p \in Procs :
        /\ sig[p].sent <= 1
        /\ sig[p].closed => sig[p].sent = 1
        /\ (sig[p].sent = 1 /\ ~sig[p].closed)
             => (pc[p] = "waiting" /\ loopPc = "sending" /\ last.caller = p)

C6_Step ==
    /\ HandleStep =>
         /\ pc[last'.caller] = "waiting"
         /\ sig[last'.caller].sent = 0
         /\ sig'[last'.caller] = [sent |-> 1, closed |-> FALSE, msg |-> last'.ret]
         /\ \A q \in Procs \ {last'.caller} : sig'[q] = sig[q]
    /\ \A p \in Procs :
         (pc[p] = "waiting" /\ pc'[p] # "waiting")
           => /\ sig[p].sent = 1
              /\ result'[p] = sig[p].msg
              /\ sig'[p].sent = 1
              /\ sig'[p].closed

C7_Arrivals ==
    /\ last.seq + Len(operationQueue) = arrivals
    /\ \A i \in 1..Len(operationQueue) : operationQueue[i].seq = last.seq + i

C7_Step ==
    HandleStep =>
        /\ last'.seq = last.seq + 1
        /\ \A p \in Procs : sig[p].sent = 1 => sig[p].closed
        /\ sig'[last'.caller].msg = last'.ret

C7_ArrivalOrder == []C7_Arrivals /\ [][C7_Step]_vars

\* Operations of two goroutines were queued together and the older was handled.
C7_Witness ==
    /\ last.seq >= 2
    /\ last.caller \in Callers
    /\ Len(operationQueue) >= 1
    /\ operationQueue[1].caller # last.caller
    /\ pc[last.caller] = "idle"

\* C8: when Stop has returned no registered folder is initialized or holds an
\* open watcher.
C8_TeardownOnStop ==
    pc[Ctl] = "stopped" =>
        \A l \in DOMAIN folders :
            ~isInitialized(folders[l]) /\ folders[l].watcher # "open"

\* C9: RemoveFolder, GetFolder and RecheckFolder on a location that is not
\* registered answer 'folder not exist' and change neither the registry nor
\* any directory or watcher, and run no check.
C9_Step ==
    ( /\ HandleStep
      /\ last'.op \in {OperationRemove, OperationGet, OperationRecheck}
      /\ last'.folder.Location \notin DOMAIN folders )
    => /\ last'.ret.err = ErrFolderNotExist
       /\ folders' = folders
       /\ disk' = disk
       /\ watchers' = watchers
       /\ checked' = {}

C9_NotFoundNoEffect == [][C9_Step]_vars

\* An operation on an unregistered location was refused while another folder
\* is registered and initialized.
C9_Witness ==
    /\ last.op \in {OperationRemove, OperationGet, OperationRecheck}
    /\ last.ret.err = ErrFolderNotExist
    /\ \E l \in DOMAIN folders : isInitialized(folders[l])

\* C10: a successful RemoveFolder takes the location out of the registry and
\* leaves no watcher of it open; only a successful AddFolder of the location
\* brings it back; and GetFolder on a location out of the registry answers
\* 'folder not exist'.
C10_Step ==
    /\ (HandleStep /\ last'.op = OperationRemove /\ last'.ret.err = ErrNil)
         => /\ last'.folder.Location \in DOMAIN folders
            /\ last'.folder.Location \notin DOMAIN folders'
            /\ watchers'[last'.folder.Location] = 0
    /\ \A l \in DOMAIN folders' \ DOMAIN folders :
         /\ HandleStep
         /\ last'.op = OperationAdd
         /\ last'.ret.err = ErrNil
         /\ last'.folder.Location = l
    /\ (HandleStep /\ last'.op = OperationGet /\ last'.folder.Location \notin DOMAIN folders)
         => /\ last'.ret.err = ErrFolderNotExist
            /\ last'.folder.Location \notin DOMAIN folders'

C10_RemovedStaysRemoved == [][C10_Step]_vars

\* A folder that had evicted files was removed, and its watcher is closed.
C10_Witness ==
    /\ last.op = OperationRemove
    /\ last.ret.err = ErrNil
    /\ disk[LastLoc] # InitialDisk[LastLoc]
    /\ LastLoc \notin DOMAIN folders
    /\ watchers[LastLoc] = 0

\* C11: while IsStarted() is false a goroutine that is not inside a call can
\* only have its public calls answered 'not started' (with the zero folder
\* for GetFolder): the call builds no operation and no reply channel, passes
\* no started check, and the operation queue holds nothing of that goroutine
\* after the step.
C11_Step ==
    \A p \in Callers :
        (pc[p] = "idle" /\ ~started) =>
            /\ pc'[p] = "idle"
            /\ result'[p] # result[p] => result'[p] = Response(ErrNotStarted, ZeroFolder)
            /\ pending'[p] = pending[p]
            /\ sig'[p] = sig[p]
            /\ issued' = issued
            /\ \A i \in 1..Len(operationQueue') : operationQueue'[i].caller # p

C11_NotStartedNoEnqueue == [][C11_Step]_vars

\* After Stop a call was answered 'not started' while the operation of a call
\* that had passed the started check before Stop sits in the queue.
C11_Witness ==
    /\ pc[Ctl] = "stopped"
    /\ ~started
    /\ \E p \in Callers : pc[p] = "idle" /\ result[p].err = ErrNotStarted
    /\ \E q \in Callers : pc[q] = "waiting"
    /\ Len(operationQueue) = 1

\* The calls of fn among the calls of the loop's latest step.
CallsOf(cs, fn) == SelectSeq(cs, LAMBDA c : c.fn = fn)

\* C12: a check() of a folder whose MaxSize is 0 calls neither the removing
\* strategy nor DeleteFiles (nor the on-remove callback), whatever its
\* CurrentSize; and no step deletes a file from the directory of a folder
\* registered with MaxSize 0.
C12_Step ==
    /\ \A l \in checked' :
         (HandleStep /\ folders'[l].MaxSize = 0) =>
             /\ CallsOf(calls', "RemovingStrategy") = <<>>
             /\ CallsOf(calls', "DeleteFiles") = <<>>
             /\ CallsOf(calls', "onRemoveCb") = <<>>
             /\ disk'[l] = disk[l]
    /\ \A l \in DOMAIN folders : folders[l].MaxSize = 0 => disk'[l] = disk[l]

C12_UnlimitedNeverEvicts == [][C12_Step]_vars

\* check() ran without error on an initialized folder with MaxSize 0 whose
\* directory holds files, and CurrentSize is still their total.
C12_Witness ==
    /\ checked = {"a"}
    /\ last.ret.err = ErrNil
    /\ "a" \in DOMAIN folders
    /\ folders["a"].MaxSize = 0
    /\ isInitialized(folders["a"])
    /\ folders["a"].CurrentSize > 0
    /\ folders["a"].CurrentSize = DirSize(disk["a"])

\* ---- the scenario of the repository's test

\* The file written first (600 000 bytes).
OldestFile == MkFile(3, 600000, 1)

\* C16: with the oldest-first strategy, a GetFolder or RecheckFolder that
\* runs check() and succeeds on the folder registered with a quota of
\* 1 000 000 bytes, its directory holding the files of 600 000, 300 000 and
\* 400 000 bytes written in that order, calls the strategy once, with
\* 300 000 bytes to free; the
\* strategy returns the first file alone, that file and no other entry is
\* deleted, and the directory and CurrentSize (also the one GetFolder
\* returns) are at 700 000 bytes.
C16_Step ==
    ( /\ HandleStep
      /\ last'.op \in {OperationGet, OperationRecheck}
      /\ last'.folder.Location = "a"
      /\ last'.ret.err = ErrNil
      /\ checked' = {"a"}
      /\ RemovingStrategy = "DEFAULT_REMOVING_STRATEGY"
      /\ disk["a"] = DirBig
      /\ "a" \in DOMAIN folders
      /\ folders["a"].MaxSize = 1000000 )
    => /\ Len(CallsOf(calls', "RemovingStrategy")) = 1
       /\ CallsOf(calls', "RemovingStrategy")[1].size = 300000
       /\ CallsOf(calls', "RemovingStrategy")[1].out = << OldestFile >>
       /\ Deleted("a") = { OldestFile }
       /\ DirSize(disk'["a"]) = 700000
       /\ folders'["a"].CurrentSize = 700000
       /\ last'.op = OperationGet => last'.ret.data.CurrentSize = 700000

C16_TestScenario == [][C16_Step]_vars

\* GetFolder returned 700 000 for the folder of the scenario, the first file
\* being the only one gone.
C16_Witness ==
    /\ last.op = OperationGet
    /\ last.ret.err = ErrNil
    /\ last.ret.data.MaxSize = 1000000
    /\ last.ret.data.CurrentSize = 700000
    /\ RemovingStrategy = "DEFAULT_REMOVING_STRATEGY"
    /\ disk["a"] = DirBig \ { OldestFile }
    /\ checked = {"a"}

\* ---- initialize

\* C18: a GetFolder or RecheckFolder whose initialize() returned an error
\* leaves the folder not initialized (no file set) and with no open watcher.
C18_FailedInitializeTornDown ==
    [][ ( /\ HandleStep
          /\ last'.op \in {OperationGet, OperationRecheck}
          /\ last'.folder.Location \in DOMAIN folders
          /\ last'.ret.err # ErrNil )
        => /\ ~isInitialized(folders'[last'.folder.Location])
           /\ folders'[last'.folder.Location].watcher # "open"
           /\ watchers'[last'.folder.Location] = 0 ]_vars

\* C19: with a metadata reader configured, a GetFolder on a folder that is
\* not initialized, or a RecheckFolder, whose initialize() succeeds calls the
\* reader exactly once for every file of the scanned file set, all of it
\* before the strategy is called; a GetFolder on an initialized folder does
\* not call it.
C19_Step ==
    LET l == last'.folder.Location
        reads == CallsOf(calls', "metaDataReader")
    IN ( /\ HandleStep
         /\ last'.op \in {OperationGet, OperationRecheck}
         /\ l \in DOMAIN folders
         /\ last'.ret.err = ErrNil
         /\ metaDataReader # "nil" )
       => IF last'.op = OperationGet /\ isInitialized(folders[l])
          THEN reads = <<>>
          ELSE /\ \A k \in DOMAIN folders'[l].list[1] :
                    Len(SelectSeq(reads, LAMBDA c : c.in = << folders'[l].list[1][k] >>)) = 1
               /\ Len(reads) = Len(folders'[l].list[1])
               /\ \A i \in DOMAIN calls' : \A j \in DOMAIN calls' :
                    (calls'[i].fn = "metaDataReader" /\ calls'[j].fn = "RemovingStrategy")
                      => i < j

C19_MetadataOncePerFile == [][C19_Step]_vars

\* ---- check

\* C20: the on-remove callback is called only after a DeleteFiles that
\* returned no error, with the files that were removed, while CurrentSize
\* still counts them; and it is called after every such DeleteFiles when a
\* callback is configured.
C20_Step ==
    HandleStep =>
        /\ \A i \in DOMAIN calls' :
             calls'[i].fn = "onRemoveCb"
               => /\ i > 1
                  /\ calls'[i - 1].fn = "DeleteFiles"
                  /\ calls'[i - 1].err = ErrNil
                  /\ calls'[i].in = calls'[i - 1].out
                  /\ calls'[i].size
                       = folders'[last'.folder.Location].CurrentSize
                         + calculateFolderSize(calls'[i].in)
        /\ \A i \in DOMAIN calls' :
             (calls'[i].fn = "DeleteFiles" /\ calls'[i].err = ErrNil /\ onRemoveCb # "nil")
               => /\ i < Len(calls')
                  /\ calls'[i + 1].fn = "onRemoveCb"

C20_CallbackOnlyOnSuccess == [][C20_Step]_vars

\* ---- the strategies and DeleteFiles, on any list of files

\* The order the configured built-in strategy sorts by.
ByKey == IF RemovingStrategy = "DEFAULT_REMOVING_STRATEGY" THEN "CreateAt" ELSE "Name"

\* The calls of the strategy that have returned.
StrategyCalls == { i \in DOMAIN calls : calls[i].fn = "RemovingStrategy" /\ calls[i].err = ErrNil }

\* The non-directory files of a list, in the order of the list.
Candidates(files) == SelectSeq(files, LAMBDA f : ~f.IsDir)

Count(files, f) == Cardinality({ i \in DOMAIN files : files[i] = f })

RECURSIVE SeqSizes(_)
SeqSizes(files) ==
    IF files = <<>> THEN 0 ELSE files[1].Size + SeqSizes(Tail(files))

\* C13: what a built-in strategy returns is made of non-directory files of
\* its input, each at most as often as the input holds it, in ascending order
\* of the strategy's key, with every file left out not less than any file
\* returned (a prefix of the order); without its last file it sums to less
\* than bytesToFree; and it sums to bytesToFree or more unless it holds every
\* non-directory file.
MinimalPrefix(c) ==
    LET cands == Candidates(c.in)
        n == Len(c.out)
    IN /\ \A i \in 1..n : Count(c.out, c.out[i]) <= Count(cands, c.out[i])
       /\ \A i \in 1..n : \A j \in (i + 1)..n : ~Less(ByKey, c.out[j], c.out[i])
       /\ \A k \in DOMAIN cands :
            Count(cands, cands[k]) > Count(c.out, cands[k])
              => \A i \in 1..n : ~Less(ByKey, cands[k], c.out[i])
       /\ n > 0 => SeqSizes(SubSeq(c.out, 1, n - 1)) < c.size
       /\ SeqSizes(c.out) >= c.size \/ n = Len(cands)

C13_MinimalPrefix == \A i \in StrategyCalls : MinimalPrefix(calls[i])

\* A strategy returned two of three files, freeing more than asked, the first
\* of them not being the first of its input.
C13_Witness ==
    /\ StrategyCalls = {1}
    /\ Len(Candidates(calls[1].in)) = 3
    /\ Len(calls[1].out) = 2
    /\ SeqSizes(calls[1].out) > calls[1].size
    /\ calls[1].out[1] # calls[1].in[1]

\* The non-directory files in ascending order of the key, files of equal key
\* in the order of the input: the first of the least files comes first.
RECURSIVE StableOrder(_, _)
StableOrder(files, by) ==
    IF files = <<>> THEN <<>>
    ELSE LET m == CHOOSE i \in DOMAIN files :
                     /\ \A j \in DOMAIN files : ~Less(by, files[j], files[i])
                     /\ \A j \in 1..(i - 1) : Less(by, files[i], files[j])
         IN <<files[m]>>
            \o StableOrder(SubSeq(files, 1, m - 1) \o SubSeq(files, m + 1, Len(files)), by)

\* C14: what a built-in strategy returns is the beginning of its candidates
\* sorted by the key with equal keys kept in input order.
C14_StableTies ==
    \A i \in StrategyCalls :
        calls[i].out = SubSeq(StableOrder(Candidates(calls[i].in), ByKey), 1, Len(calls[i].out))

\* C15: no directory is among the files a built-in strategy returns, and
\* none among the files DeleteFiles removed, whatever the list handed in.
C15_NoDirectory ==
    \A i \in DOMAIN calls :
        (calls[i].fn \in {"RemovingStrategy", "DeleteFiles"} /\ calls[i].err # Calling)
          => \A k \in DOMAIN calls[i].out : ~calls[i].out[k].IsDir

\* A strategy was handed a list that starts with a directory and returned
\* every other entry of it.
C15_Witness ==
    /\ StrategyCalls = {1}
    /\ Len(calls[1].in) = 3
    /\ calls[1].in[1].IsDir
    /\ Len(calls[1].out) = 2

\* C17: asked to free more than its non-directory files hold, a built-in
\* strategy returns each of them exactly as often as the input holds it, and
\* returns normally.
C17_ReturnsEveryFile ==
    \A i \in StrategyCalls :
        calls[i].size > SeqSizes(Candidates(calls[i].in))
          => /\ Len(calls[i].out) = Len(Candidates(calls[i].in))
             /\ \A k \in DOMAIN calls[i].in :
                  ~calls[i].in[k].IsDir
                    => Count(calls[i].out, calls[i].in[k]) = Count(calls[i].in, calls[i].in[k])

\* A strategy asked for more than three different files hold returned the
\* three, in another order than it got them.
C17_Witness ==
    /\ StrategyCalls = {1}
    /\ calls[1].size > SeqSizes(Candidates(calls[1].in))
    /\ Len(calls[1].out) = 3
    /\ Cardinality({ calls[1].out[k] : k \in 1..3 }) = 3
    /\ calls[1].out # calls[1].in

\* ---- check, a deletion failing

\* C21: when DeleteFiles fails inside a GetFolder or RecheckFolder, the call
\* returns the error; the files of the batch before the failing one, and
\* only they, are gone from the directory, the failing file and the files
\* after it are still there; and CurrentSize is what the scan had found
\* (bytesToFree + MaxSize), not decremented.
C21_Step ==
    LET l == last'.folder.Location
        dels == CallsOf(calls', "DeleteFiles")
        asks == CallsOf(calls', "RemovingStrategy")
    IN (HandleStep /\ dels # <<>> /\ dels[1].err # ErrNil)
       => /\ Len(dels) = 1
          /\ Len(asks) = 1
          /\ dels[1].in = asks[1].out
          /\ last'.ret.err = dels[1].err
          /\ \E n \in 0..(Len(dels[1].in) - 1) :
                /\ dels[1].out = SubSeq(dels[1].in, 1, n)
                /\ Deleted(l) = { dels[1].in[k] : k \in 1..n }
                /\ \A k \in (n + 1)..Len(dels[1].in) : dels[1].in[k] \in disk'[l]
          /\ folders'[l].CurrentSize = asks[1].size + folders'[l].MaxSize
          /\ folders'[l].CurrentSize = DirSize(disk[l])
          /\ folders'[l].CurrentSize = DirSize(disk'[l]) + SumSizes(Deleted(l))

C21_PartialDeletion == [][C21_Step]_vars

\* A batch of two files failed at its second file: the first is gone, the
\* second is still there and CurrentSize counts both.
C21_Witness ==
    /\ last.ret.err = ErrDelete
    /\ Len(CallsOf(calls, "DeleteFiles")) = 1
    /\ Len(CallsOf(calls, "DeleteFiles")[1].in) = 2
    /\ Len(CallsOf(calls, "DeleteFiles")[1].out) = 1
    /\ CallsOf(calls, "DeleteFiles")[1].in[1] \notin disk[LastLoc]
    /\ CallsOf(calls, "DeleteFiles")[1].in[2] \in disk[LastLoc]
    /\ folders[LastLoc].CurrentSize = DirSize(InitialDisk[LastLoc])

\* ---- RecheckFolder and GetFolder

\* The non-directory files of a directory.
FilesIn(dir) == { f \in dir : ~f.IsDir }

\* The files of a file set.
FileSet(bf) == { bf.list[1][k] : k \in DOMAIN bf.list[1] }

\* C23: RecheckFolder on a registered folder, whatever state the folder is
\* in, keeps the folder registered with its MaxSize and leaves at most one
\* watcher of the location open.  When it succeeds the folder is initialized
\* with exactly one open watcher, its file set is the files the directory
\* held, check() has run and CurrentSize is the total of the files now in the
\* directory.  When it fails, CurrentSize is the total the new scan found
\* unless the scan itself failed, and check() has run unless the scan or the
\* watcher failed.
C23_Step ==
    LET l == last'.folder.Location IN
    (HandleStep /\ last'.op = OperationRecheck /\ l \in DOMAIN folders)
    => /\ l \in DOMAIN folders'
       /\ folders'[l].MaxSize = folders[l].MaxSize
       /\ watchers'[l] <= 1
       /\ last'.ret.err = ErrNil
            => /\ isInitialized(folders'[l])
               /\ folders'[l].watcher = "open"
               /\ watchers'[l] = 1
               /\ FileSet(folders'[l]) = FilesIn(disk[l])
               /\ checked' = {l}
               /\ folders'[l].CurrentSize = DirSize(disk'[l])
       /\ last'.ret.err # ErrNil
            => /\ watchers'[l] = 0
               /\ last'.ret.err # ErrScan => folders'[l].CurrentSize = DirSize(disk[l])
               /\ last'.ret.err \notin {ErrScan, ErrNewWatcher, ErrWatch} => checked' = {l}

C23_RecheckReinitializes == [][C23_Step]_vars

\* A RecheckFolder that was not among the first three operations succeeded,
\* evicted files and left one watcher of the location open.
C23_Witness ==
    /\ last.op = OperationRecheck
    /\ last.ret.err = ErrNil
    /\ LastLoc \in DOMAIN folders
    /\ watchers[LastLoc] = 1
    /\ CallsOf(calls, "DeleteFiles") # <<>>
    /\ last.seq >= 4

\* C24: GetFolder on a registered folder that is not initialized runs
\* initialize() before it replies: when it succeeds the folder is initialized
\* from a scan of the directory, one watcher is open, check() has run and the
\* reply carries the CurrentSize after the check.  GetFolder on an
\* initialized folder succeeds and changes nothing: registry, directories
\* and watchers stay as they are, no check runs, and the reply carries the
\* folder as it was.
C24_Step ==
    LET l == last'.folder.Location IN
    (HandleStep /\ last'.op = OperationGet /\ l \in DOMAIN folders)
    => IF isInitialized(folders[l])
       THEN /\ last'.ret = Response(ErrNil, Snapshot(folders[l]))
            /\ folders' = folders
            /\ disk' = disk
            /\ watchers' = watchers
            /\ checked' = {}
            /\ calls' = <<>>
       ELSE /\ last'.ret.data = Snapshot(folders'[l])
            /\ last'.ret.err = ErrNil
                 => /\ isInitialized(folders'[l])
                    /\ FileSet(folders'[l]) = FilesIn(disk[l])
                    /\ folders'[l].watcher = "open"
                    /\ watchers'[l] = 1
                    /\ checked' = {l}
                    /\ last'.ret.data.CurrentSize = DirSize(disk'[l])

C24_GetInitializesOnce == [][C24_Step]_vars

\* A GetFolder was answered from an initialized folder that had evicted
\* files before: no check ran and its watcher is the only one open.
C24_Witness ==
    /\ last.op = OperationGet
    /\ last.ret.err = ErrNil
    /\ checked = {}
    /\ LastLoc \in DOMAIN folders
    /\ isInitialized(folders[LastLoc])
    /\ watchers[LastLoc] = 1
    /\ disk[LastLoc] # InitialDisk[LastLoc]
    /\ last.ret.data.CurrentSize = DirSize(disk[LastLoc])

\* ---- Stop while calls are in flight

\* The call of p has enqueued its operation and waits on op.sig, nothing was
\* sent on op.sig, and loop has returned.
Stranded(p) == pc[p] = "waiting" /\ sig[p].sent = 0 /\ loopPc = "exited"

\* A stranded call stays stranded: no step sends on its op.sig.
StrandedStays == [][\A p \in Callers : Stranded(p) => Stranded(p)']_vars

\* C25: no call that passed the started-check is left waiting for its
\* response after loop has returned: its operation was answered before the
\* loop exited, or the call was released.
C25_NoCallerStranded == \A p \in Callers : ~Stranded(p)

\* ---- CurrentSize and the file set

\* C26: the CurrentSize of every initialized folder is the total size of the
\* non-directory files of its file set.
C26_SizeMatchesFileSet ==
    \A l \in DOMAIN folders :
        isInitialized(folders[l])
            => folders[l].CurrentSize = calculateFolderSize(folders[l].list[1])

\* ---- the goroutines of watch()

\* C22: no goroutine started by watch() reads a field of a folder: the
\* fields of a folder are used by the loop alone.
C22_OnlyLoopUsesFolders == access = NoAccess

\* Two goroutines of watch() wait on the channels of the same watcher: the
\* one an earlier initialize() started found the watcher a RecheckFolder
\* stored in the folder.
TwoListenersOneWatcher == \E l \in Locations : listeners[l].open >= 2

\* A goroutine of watch() at the top of its loop has a folder with a watcher.
ListenerHasWatcher ==
    \A l \in Locations :
        listeners[l].top > 0 => l \in DOMAIN folders /\ folders[l].watcher # "nil"

====
